---------------------------- MODULE Spec2Model ----------------------------
(***************************************************************************)
(* A model of jjbchunta/endpoint-routing: the route compiler               *)
(* (buildEndpointRoutes / loadRoutes / insertRoute), the matcher           *)
(* (matchRoute) and the dispatcher (class EndpointRouting).                *)
(*                                                                         *)
(* JavaScript strings are sequences of one-character strings, so that      *)
(* startsWith, slice, split, replace and toUpperCase are computed the way  *)
(* the code computes them.  JavaScript values are records                  *)
(*     [kind, props, str]                                                  *)
(* where an object keeps its own properties in insertion order (props),    *)
(* the order `for (key in obj)` and JSON.stringify follow for the string   *)
(* keys this program uses.                                                 *)
(***************************************************************************)
EXTENDS Naturals, Sequences, FiniteSets, TLC

(***************************************************************************)
(* Strings                                                                 *)
(***************************************************************************)
Lowers == <<"a","b","c","d","e","f","g","h","i","j","k","l","m",
            "n","o","p","q","r","s","t","u","v","w","x","y","z">>
Uppers == <<"A","B","C","D","E","F","G","H","I","J","K","L","M",
            "N","O","P","Q","R","S","T","U","V","W","X","Y","Z">>

UpperChar(c) ==
    IF \E i \in 1..Len(Lowers) : Lowers[i] = c
    THEN Uppers[CHOOSE i \in 1..Len(Lowers) : Lowers[i] = c]
    ELSE c

\* String.prototype.toUpperCase
toUpperCase(s) == [i \in 1..Len(s) |-> UpperChar(s[i])]

\* String.prototype.startsWith / endsWith
startsWith(s, pre) == Len(s) >= Len(pre) /\ SubSeq(s, 1, Len(pre)) = pre
endsWith(s, suf) ==
    Len(s) >= Len(suf) /\ SubSeq(s, Len(s) - Len(suf) + 1, Len(s)) = suf

\* String.prototype.slice(n), n >= 0
slice(s, n) == SubSeq(s, n + 1, Len(s))

\* s.split('/') : the pieces of s between the "/" characters
RECURSIVE splitFrom(_, _, _)
splitFrom(s, i, cur) ==
    IF i > Len(s) THEN <<cur>>
    ELSE IF s[i] = "/" THEN <<cur>> \o splitFrom(s, i + 1, <<>>)
    ELSE splitFrom(s, i + 1, Append(cur, s[i]))

split(s) == splitFrom(s, 1, <<>>)

\* Array.prototype.filter(Boolean) on an array of strings: the empty string
\* is the only falsy string
filterBoolean(arr) == SelectSeq(arr, LAMBDA x : x # <<>>)

\* Array.prototype.join('/')
RECURSIVE join(_)
join(arr) ==
    IF arr = <<>> THEN <<>>
    ELSE IF Len(arr) = 1 THEN arr[1]
    ELSE arr[1] \o <<"/">> \o join(Tail(arr))

(***************************************************************************)
(* JavaScript values                                                       *)
(***************************************************************************)
Undefined   == [kind |-> "undefined", props |-> <<>>, str |-> <<>>]
Null        == [kind |-> "null",      props |-> <<>>, str |-> <<>>]
Str(s)      == [kind |-> "string",    props |-> <<>>, str |-> s]
Bool(b)     == [kind |-> "boolean",   props |-> <<>>,
                str  |-> IF b THEN <<"t","r","u","e">> ELSE <<"f","a","l","s","e">>]
Num(digits) == [kind |-> "number",    props |-> <<>>, str |-> digits]
Obj(props)  == [kind |-> "object",    props |-> props, str |-> <<>>]
\* an array of strings: its elements are the values of props, keys unused
Arr(elems)  == [kind |-> "array",
                props |-> [i \in 1..Len(elems) |-> [k |-> <<>>, v |-> Str(elems[i])]],
                str |-> <<>>]
\* a function value; str names the body it runs
Fn(name)    == [kind |-> "function",  props |-> <<>>, str |-> name]
\* an Error instance; str is its constructor name / message
Err(name)   == [kind |-> "error",     props |-> <<>>, str |-> name]

EmptyObject == Obj(<<>>)

\* ToBoolean
truthy(v) ==
    CASE v.kind \in {"undefined", "null"} -> FALSE
      [] v.kind = "string"  -> v.str # <<>>
      [] v.kind = "boolean" -> v.str = <<"t","r","u","e">>
      [] v.kind = "number"  -> v.str # <<"0">>
      [] OTHER -> TRUE

\* a || b
orElse(a, b) == IF truthy(a) THEN a ELSE b

\* obj.hasOwnProperty(key)
hasOwnProperty(obj, key) ==
    \E i \in 1..Len(obj.props) : obj.props[i].k = key

\* obj[key] on an object of this program: own properties only (no key the
\* program uses is inherited from Object.prototype); undefined when absent,
\* and undefined on a string, number, boolean or function receiver
getProp(obj, key) ==
    IF hasOwnProperty(obj, key)
    THEN obj.props[CHOOSE i \in 1..Len(obj.props) : obj.props[i].k = key].v
    ELSE Undefined

\* obj[key] = val : an existing key keeps its place, a new key goes last
setProp(obj, key, val) ==
    IF hasOwnProperty(obj, key)
    THEN [obj EXCEPT !.props =
            [i \in 1..Len(obj.props) |->
                IF obj.props[i].k = key THEN [k |-> key, v |-> val]
                ELSE obj.props[i]]]
    ELSE [obj EXCEPT !.props = Append(obj.props, [k |-> key, v |-> val])]

\* { ...a, ...b } : spreading undefined or null adds nothing
RECURSIVE assignAll(_, _, _)
assignAll(target, src, i) ==
    IF i > Len(src.props) THEN target
    ELSE assignAll(setProp(target, src.props[i].k, src.props[i].v), src, i + 1)

spread(a, b) ==
    LET fromA == IF a.kind = "object" THEN assignAll(EmptyObject, a, 1)
                 ELSE EmptyObject
    IN  IF b.kind = "object" THEN assignAll(fromA, b, 1) ELSE fromA

(***************************************************************************)
(* Names the program and its inputs use                                    *)
(***************************************************************************)
k_filePath == <<"f","i","l","e","P","a","t","h">>
k_params   == <<"p","a","r","a","m","s">>
k_default  == <<"d","e","f","a","u","l","t">>
k_success  == <<"s","u","c","c","e","s","s">>
k_code     == <<"c","o","d","e">>
k_status   == <<"s","t","a","t","u","s">>
s_indexjs  == <<"i","n","d","e","x",".","j","s">>

(***************************************************************************)
(* The compiler: formatSegment and insertRoute                             *)
(***************************************************************************)
\* '/' + segment.replace(/^\[(.+)\]$/, ':$1')
\* (.+ needs at least one character between the brackets)
formatSegment(segment) ==
    <<"/">> \o
    (IF Len(segment) >= 3 /\ segment[1] = "[" /\ segment[Len(segment)] = "]"
     THEN <<":">> \o SubSeq(segment, 2, Len(segment) - 1)
     ELSE segment)

\* the key insertRoute stores a directory segment under
formattedSegment(segment) ==
    IF startsWith(segment, <<"[">>) /\ endsWith(segment, <<"]">>)
    THEN formatSegment(segment)
    ELSE <<"/">> \o segment

\* the body of segments.forEach from index `index` (1-based) on, applied to
\* currentLevel; the object the code mutates in place is returned updated
RECURSIVE insertLevel(_, _, _, _, _)
insertLevel(currentLevel, segments, index, method, filePath) ==
    IF index > Len(segments) THEN currentLevel
    ELSE
      LET key     == formattedSegment(segments[index])
          created == IF ~truthy(getProp(currentLevel, key))
                     THEN setProp(currentLevel, key, EmptyObject)
                     ELSE currentLevel
          child   == getProp(created, key)
      IN  IF index = Len(segments)
          THEN setProp(created, key,
                  setProp(child, method,
                          Obj(<<[k |-> k_filePath, v |-> Str(filePath)]>>)))
          ELSE setProp(created, key,
                  insertLevel(child, segments, index + 1, method, filePath))

insertRoute(nestedRoutes, fullPath, method, filePath) ==
    insertLevel(nestedRoutes, filterBoolean(split(fullPath)), 1, method, filePath)

(***************************************************************************)
(* The matcher                                                             *)
(***************************************************************************)
\* the first key of `level`, in property order, that starts with "/:"
\* (0 when there is none)
firstDynamic(level) ==
    LET dyn == {i \in 1..Len(level.props) :
                    startsWith(level.props[i].k, <<"/", ":">>)}
    IN  IF dyn = {} THEN 0
        ELSE CHOOSE i \in dyn : \A j \in dyn : i <= j

\* matchSegment with the dynamic keys looked at before the exact key
matchSegment_dynamicFirst(currentLevel, segment) ==
    LET exactKey == <<"/">> \o segment
        d        == firstDynamic(currentLevel)
    IN  IF d # 0
        THEN [found |-> TRUE, dynamic |-> TRUE, key |-> currentLevel.props[d].k,
              level |-> currentLevel.props[d].v]
        ELSE IF hasOwnProperty(currentLevel, exactKey)
        THEN [found |-> TRUE, dynamic |-> FALSE, key |-> exactKey,
              level |-> getProp(currentLevel, exactKey)]
        ELSE [found |-> FALSE, dynamic |-> FALSE, key |-> <<>>,
              level |-> Null]

\* one iteration of the loop over the segments
matchSegment(currentLevel, segment) ==
    LET exactKey == <<"/">> \o segment
        d        == firstDynamic(currentLevel)
    IN  IF hasOwnProperty(currentLevel, exactKey)
        THEN [found |-> TRUE, dynamic |-> FALSE, key |-> exactKey,
              level |-> getProp(currentLevel, exactKey)]
        ELSE IF d # 0
        THEN [found |-> TRUE, dynamic |-> TRUE, key |-> currentLevel.props[d].k,
              level |-> currentLevel.props[d].v]
        ELSE [found |-> FALSE, dynamic |-> FALSE, key |-> <<>>,
              level |-> Null]

\* matchLoop going back to the dynamic key when the rest of the path finds
\* nothing below the exact key
RECURSIVE matchLoop_backtrack(_, _, _, _)
matchLoop_backtrack(currentLevel, segments, params, keys) ==
    IF segments = <<>>
    THEN [node |-> currentLevel, matched |-> TRUE, params |-> params, keys |-> keys]
    ELSE
      LET exactKey == <<"/">> \o Head(segments)
          d        == firstDynamic(currentLevel)
          viaExact == matchLoop_backtrack(getProp(currentLevel, exactKey),
                                          Tail(segments), params, Append(keys, exactKey))
          viaDyn   == matchLoop_backtrack(currentLevel.props[d].v, Tail(segments),
                          setProp(params, slice(currentLevel.props[d].k, 2),
                                  Str(Head(segments))),
                          Append(keys, currentLevel.props[d].k))
      IN  IF hasOwnProperty(currentLevel, exactKey) /\ viaExact.matched
          THEN viaExact
          ELSE IF d # 0 THEN viaDyn
          ELSE [node |-> Null, matched |-> FALSE, params |-> params, keys |-> keys]

\* matchLoop returning the node it got to when a segment finds no key
RECURSIVE matchLoop_partial(_, _, _, _)
matchLoop_partial(currentLevel, segments, params, keys) ==
    IF segments = <<>>
    THEN [node |-> currentLevel, matched |-> TRUE, params |-> params, keys |-> keys]
    ELSE
      LET step == matchSegment(currentLevel, Head(segments))
      IN  IF ~step.found
          THEN [node |-> currentLevel, matched |-> TRUE, params |-> params, keys |-> keys]
          ELSE matchLoop_partial(step.level, Tail(segments),
                         IF step.dynamic
                         THEN setProp(params, slice(step.key, 2), Str(Head(segments)))
                         ELSE params,
                         Append(keys, step.key))

\* the loop: the node reached (Null for `return null`), the params object
\* built, and the keys descended through
RECURSIVE matchLoop(_, _, _, _)
matchLoop(currentLevel, segments, params, keys) ==
    IF segments = <<>>
    THEN [node |-> currentLevel, matched |-> TRUE, params |-> params, keys |-> keys]
    ELSE
      LET step == matchSegment(currentLevel, Head(segments))
      IN  IF ~step.found
          THEN [node |-> Null, matched |-> FALSE, params |-> params, keys |-> keys]
          ELSE matchLoop(step.level, Tail(segments),
                         IF step.dynamic
                         THEN setProp(params, slice(step.key, 2), Str(Head(segments)))
                         ELSE params,
                         Append(keys, step.key))

\* matchRoute(routeRegistry, path, req): `req` is Undefined when the caller
\* passes none (the default parameter {} applies).  The result carries the
\* returned node, the local params, and the req object as the call leaves it.
matchRoute(routeRegistry, path, req) ==
    LET r    == matchLoop(routeRegistry, filterBoolean(split(path)), EmptyObject, <<>>)
        req0 == IF req.kind = "undefined" THEN EmptyObject ELSE req
    IN  [node   |-> r.node,
         params |-> r.params,
         keys   |-> r.keys,
         req    |-> IF r.matched /\ truthy(getProp(req0, k_params))
                    THEN setProp(req0, k_params,
                                 spread(getProp(req0, k_params), r.params))
                    ELSE req0]

(***************************************************************************)
(* The handler directory: what fs.readdirSync, fs.statSync and import()    *)
(* answer.  A tree is a set of route files [dir, kind]: directory `dir`    *)
(* (its names below the handlers root) holds an index.js of kind `kind`.   *)
(* Every ancestor of such a directory exists; nothing else does.           *)
(***************************************************************************)
n_a   == <<"a">>
n_x   == <<"x">>
n_p   == <<"[","p","]">>
n_q   == <<"[","q","]">>
n_cp  == <<":","p">>
n_dev == <<"d","e","v">>

m_GET  == <<"G","E","T">>
m_get  == <<"g","e","t">>
m_POST == <<"P","O","S","T">>

\* process.cwd() / path.resolve(), and the default handlersDir
s_cwd       == <<"/","w">>
s_endpoints == <<"e","n","d","p","o","i","n","t","s">>

\* path.join(a, b) for a normalized a and a single name b
pathJoin(a, b) == a \o <<"/">> \o b

\* path.relative(process.cwd(), p).replace(/\\/g, '/') for p below cwd
pathRelative(p) ==
    IF startsWith(p, s_cwd \o <<"/">>) THEN slice(p, Len(s_cwd) + 1) ELSE p

\* path.resolve(p) for a relative p
pathResolve(p) == IF startsWith(p, <<"/">>) THEN p ELSE pathJoin(s_cwd, p)

\* the bodies of the handler functions the route files export
h_ret   == <<"r","e","t">>
h_throw == <<"t","h","r","o","w">>

\* what `await import(file)` gives for an index.js of each kind: the module
\* namespace object, or a rejection
moduleOf(kind) ==
    CASE kind = "getOk" ->
           [rejects |-> FALSE, module |-> Obj(<<[k |-> k_default, v |->
               Obj(<<[k |-> m_GET, v |-> Fn(h_ret)]>>)]>>)]
      [] kind = "mixed" ->
           [rejects |-> FALSE, module |-> Obj(<<[k |-> k_default, v |->
               Obj(<<[k |-> m_get,  v |-> Fn(h_ret)],
                     [k |-> m_POST, v |-> Fn(h_throw)]>>)]>>)]
      [] kind = "notFn" ->
           [rejects |-> FALSE, module |-> Obj(<<[k |-> k_default, v |->
               Obj(<<[k |-> m_GET, v |-> Str(<<"x">>)]>>)]>>)]
      [] kind = "noDefault" ->
           [rejects |-> FALSE, module |-> EmptyObject]
      [] kind = "fnDefault" ->
           [rejects |-> FALSE, module |-> Obj(<<[k |-> k_default, v |-> Fn(h_ret)]>>)]
      [] OTHER -> \* "loadFails": a syntax error, a throwing module, no such file
           [rejects |-> TRUE, module |-> Undefined]

ModuleKinds == {"getOk", "mixed", "notFn", "noDefault", "fnDefault", "loadFails"}

\* the names a directory listing can hold, in code-unit order
NameOrder == <<n_cp, n_p, n_q, n_a, n_dev, s_indexjs, n_x>>

IsPrefix(p, q) == Len(p) <= Len(q) /\ SubSeq(q, 1, Len(p)) = p

\* the directory names of an absolute path below the handlers root
dirNames(root, abs) == filterBoolean(split(slice(abs, Len(root))))

\* fs.readdirSync(dir): the entries of dir, in the order the listing gives
readdirSync(tree, listing, root, dir) ==
    LET d       == dirNames(root, dir)
        present == {n \in 1..Len(NameOrder) :
                      \/ /\ NameOrder[n] = s_indexjs
                         /\ \E f \in tree : f.dir = d
                      \/ /\ NameOrder[n] # s_indexjs
                         /\ \E f \in tree : IsPrefix(Append(d, NameOrder[n]), f.dir)}
        asc     == SelectSeq([n \in 1..Len(NameOrder) |-> n], LAMBDA n : n \in present)
    IN  [i \in 1..Len(asc) |->
            NameOrder[IF listing = "asc" THEN asc[i] ELSE asc[Len(asc) + 1 - i]]]

\* fs.statSync(fullPath).isDirectory()
isDirectory(tree, root, fullPath) ==
    /\ ~endsWith(fullPath, <<"/">> \o s_indexjs)
    /\ \E f \in tree : IsPrefix(dirNames(root, fullPath), f.dir)

\* await import(`file://${fullPath}`) for an absolute fullPath
importFile(tree, root, fullPath) ==
    LET d == dirNames(root, fullPath)
        hit == {f \in tree : endsWith(fullPath, <<"/">> \o s_indexjs)
                             /\ Append(f.dir, s_indexjs) = d}
    IN  IF hit = {} THEN moduleOf("loadFails")
        ELSE moduleOf((CHOOSE f \in hit : TRUE).kind)

(***************************************************************************)
(* The compiler: loadRoutes and buildEndpointRoutes (lib version)          *)
(***************************************************************************)
\* Array.isArray(pathBlacklist) && pathBlacklist.includes(file)
blacklisted(pathBlacklist, file) ==
    /\ pathBlacklist.kind = "array"
    /\ \E i \in 1..Len(pathBlacklist.props) : pathBlacklist.props[i].v = Str(file)

\* the loop over Object.entries(routeModule.default) from entry i on
RECURSIVE insertEntries(_, _, _, _, _)
insertEntries(nestedRoutes, routePath, entries, i, fullPath) ==
    IF i > Len(entries) THEN nestedRoutes
    ELSE insertEntries(
            insertRoute(nestedRoutes, routePath, entries[i].k, pathRelative(fullPath)),
            routePath, entries, i + 1, fullPath)

\* typeof v === 'object' (null included, as in JavaScript)
typeofObject(v) == v.kind \in {"object", "array", "null"}

\* the index.js branch: the module's methods inserted, or the file skipped
loadIndex(nestedRoutes, tree, root, fullPath, basePath) ==
    LET imp == importFile(tree, root, fullPath)
        def == IF imp.rejects THEN Undefined ELSE getProp(imp.module, k_default)
    IN  IF imp.rejects THEN nestedRoutes
        ELSE IF ~truthy(def) \/ ~typeofObject(def) THEN nestedRoutes
        ELSE insertEntries(nestedRoutes, basePath, def.props, 1, fullPath)

\* loadRoutes(nestedRoutes, dir, pathBlacklist, basePath, debug): the routes
\* object after the call; loadFiles is its loop over `files` from entry i on
RECURSIVE loadRoutes(_, _, _, _, _, _, _)
RECURSIVE loadFiles(_, _, _, _, _, _, _, _, _)
loadFiles(nestedRoutes, tree, listing, root, dir, pathBlacklist, basePath, files, i) ==
    IF i > Len(files) THEN nestedRoutes
    ELSE
      LET file     == files[i]
          fullPath == pathJoin(dir, file)
          after    ==
            IF isDirectory(tree, root, fullPath)
            THEN IF blacklisted(pathBlacklist, file) THEN nestedRoutes
                 ELSE loadRoutes(nestedRoutes, tree, listing, root, fullPath,
                                 pathBlacklist, basePath \o <<"/">> \o file)
            ELSE IF file = s_indexjs
            THEN loadIndex(nestedRoutes, tree, root, fullPath, basePath)
            ELSE nestedRoutes
      IN  loadFiles(after, tree, listing, root, dir, pathBlacklist, basePath,
                    files, i + 1)

loadRoutes(nestedRoutes, tree, listing, root, dir, pathBlacklist, basePath) ==
    loadFiles(nestedRoutes, tree, listing, root, dir, pathBlacklist, basePath,
              readdirSync(tree, listing, root, dir), 1)

\* buildEndpointRoutes(args) on an existing handlers directory and output
\* file: the object written to configOutput.  args.pathBlacklist || null.
buildEndpointRoutes(tree, listing, argBlacklist) ==
    LET handlersDir     == s_endpoints
        pathBlacklist   == orElse(argBlacklist, Null)
        handlersDirPath == pathJoin(s_cwd, handlersDir)
    IN  loadRoutes(EmptyObject, tree, listing, handlersDirPath, handlersDirPath,
                   pathBlacklist, <<>>)

(***************************************************************************)
(* The dispatcher: class EndpointRouting                                   *)
(***************************************************************************)
s_NOT_FOUND   == <<"N","O","T","_","F","O","U","N","D">>
s_NOT_ALLOWED == <<"N","O","T","_","A","L","L","O","W","E","D">>
s_404 == <<"4","0","4">>
s_405 == <<"4","0","5">>
s_routeNotFound == <<"R","o","u","t","e"," ","n","o","t"," ","f","o","u","n","d",".">>
s_TypeError      == <<"T","y","p","e","E","r","r","o","r">>
s_ReferenceError == <<"R","e","f","e","r","e","n","c","e","E","r","r","o","r">>
s_Error          == <<"E","r","r","o","r">>
s_boom           == <<"b","o","o","m">>

\* { success: false, code: "NOT_FOUND", error: "Route not found.", status: 404 }
NotFoundError ==
    Obj(<<[k |-> k_success, v |-> Bool(FALSE)],
          [k |-> k_code,    v |-> Str(s_NOT_FOUND)],
          [k |-> <<"e","r","r","o","r">>, v |-> Str(s_routeNotFound)],
          [k |-> k_status,  v |-> Num(s_404)]>>)

\* { success: false, code: "NOT_ALLOWED", error: `Method '${method}' not supported.`, status: 405 }
NotAllowedError(method) ==
    Obj(<<[k |-> k_success, v |-> Bool(FALSE)],
          [k |-> k_code,    v |-> Str(s_NOT_ALLOWED)],
          [k |-> <<"e","r","r","o","r">>,
           v |-> Str(<<"M","e","t","h","o","d"," ","'">> \o method \o
                     <<"'"," ","n","o","t"," ","s","u","p","p","o","r","t","e","d",".">>)],
          [k |-> k_status,  v |-> Num(s_405)]>>)

\* a call's result: nothing yet, a returned value, or a thrown one
Pending     == [how |-> "none",     value |-> Undefined]
Returned(v) == [how |-> "returned", value |-> v]
Threw(v)    == [how |-> "threw",    value |-> v]

\* formatHTTPMethod(method): method.toUpperCase(), a TypeError when method
\* is not a string
formatHTTPMethod(method) ==
    IF method.kind = "string" THEN Returned(Str(toUpperCase(method.str)))
    ELSE Threw(Err(s_TypeError))

\* Array.prototype.indexOf(method) >= 0 on an array of strings
includesMethod(arr, method) ==
    \E i \in 1..Len(arr.props) : arr.props[i].v = Str(method)

\* this.#allowedMethods && this.#allowedMethods.indexOf(method) >= 0
isSupportedHTTPMethod(allowedMethods, method) ==
    IF ~truthy(allowedMethods) THEN allowedMethods
    ELSE Bool(includesMethod(allowedMethods, method))

\* typeof routeNode === 'object' && routeNode && routeNode[method]
\*   && routeNode[method].filePath, as the condition it is used for
validRouteNode(routeNode, method) ==
    /\ typeofObject(routeNode)
    /\ truthy(routeNode)
    /\ truthy(getProp(routeNode, method))
    /\ truthy(getProp(getProp(routeNode, method), k_filePath))

retrieveRouteNodePath(routeNode, method) ==
    getProp(getProp(routeNode, method), k_filePath).str

\* retrieveModuleFromFile(filePath): the module at path.resolve(filePath)
retrieveModuleFromFile(files, filePath) ==
    importFile(files, pathJoin(s_cwd, s_endpoints), pathResolve(filePath))

\* retrieveHandlerFromModule(module, method): module.default[method], a
\* TypeError when module.default is undefined; for a handler that is not a
\* function the console.error line reads the undeclared `requestPath`
retrieveHandlerFromModule(module, method) ==
    LET def == getProp(module, k_default)
    IN  IF def.kind \in {"undefined", "null"} THEN Threw(Err(s_TypeError))
        ELSE IF getProp(def, method).kind # "function"
        THEN Threw(Err(s_ReferenceError))
        ELSE Returned(getProp(def, method))

\* #retrieveHandlerFromURLPath(path, method, req) up to `await import`:
\* thrown, or waiting for the module at filePath
retrieveHandlerFromURLPath(allowedMethods, routeRegistry, path, method, req) ==
    IF ~truthy(isSupportedHTTPMethod(allowedMethods, method))
    THEN [result |-> Threw(NotAllowedError(method)), filePath |-> <<>>]
    ELSE LET routeNode == matchRoute(routeRegistry, path, req).node
         IN  IF ~validRouteNode(routeNode, method)
             THEN [result |-> Threw(Err(s_Error)), filePath |-> <<>>]
             ELSE [result |-> Pending,
                   filePath |-> retrieveRouteNodePath(routeNode, method)]

\* ... and from the settled import on
retrieveHandlerResume(imp, method) ==
    IF imp.rejects THEN Threw(Err(s_Error))
    ELSE retrieveHandlerFromModule(imp.module, method)

\* handler(req, res) for the handler bodies of the route files
callHandler(handler, req) ==
    IF handler.str = h_throw THEN Threw(Err(s_boom))
    ELSE Returned(Num(<<"0">>))

\* simulateCatch passing the caught error on
simulateCatch_rethrow(e) == e

\* the catch clause of simulatePathRequest around handler resolution
simulateCatch(e) == NotFoundError

\* existsCatch answering true
existsCatch_true(e) == Bool(TRUE)

\* the catch clause of doesEndpointExist
existsCatch(e) == Bool(FALSE)

\* handler ? true : false
existsResult(handler) == Bool(truthy(handler))

IdleCall == [pc |-> "idle", req |-> Undefined, method |-> <<>>, filePath |-> <<>>,
             handler |-> Undefined, invoked |-> FALSE, handed |-> Undefined,
             outcome |-> Pending]

\* doesEndpointExist(path, method) up to its first suspension
doesEndpointExist(allowedMethods, routeRegistry, path, method) ==
    LET fm == formatHTTPMethod(method)
        r  == retrieveHandlerFromURLPath(allowedMethods, routeRegistry, path,
                                         fm.value.str, Undefined)
    IN  IF fm.how = "threw"
        THEN [IdleCall EXCEPT !.pc = "done", !.outcome = fm]
        ELSE IF r.result.how = "threw"
        THEN [IdleCall EXCEPT !.pc = "done", !.method = fm.value.str,
                              !.outcome = Returned(existsCatch(r.result.value))]
        ELSE [IdleCall EXCEPT !.pc = "import", !.method = fm.value.str,
                              !.filePath = r.filePath]

\* ... and when the import settles
doesEndpointExistResume(call, imp) ==
    LET h == retrieveHandlerResume(imp, call.method)
    IN  [call EXCEPT !.pc = "done",
                     !.outcome = IF h.how = "threw"
                                 THEN Returned(existsCatch(h.value))
                                 ELSE Returned(existsResult(h.value))]

\* simulatePathRequest(path, method, req, res) up to its first suspension
simulatePathRequest(allowedMethods, routeRegistry, path, method, req) ==
    LET fm == formatHTTPMethod(method)
        r  == retrieveHandlerFromURLPath(allowedMethods, routeRegistry, path,
                                         fm.value.str, Undefined)
    IN  IF fm.how = "threw"
        THEN [IdleCall EXCEPT !.pc = "done", !.req = req, !.outcome = fm]
        ELSE IF r.result.how = "threw"
        THEN [IdleCall EXCEPT !.pc = "done", !.req = req, !.method = fm.value.str,
                              !.outcome = Threw(simulateCatch(r.result.value))]
        ELSE [IdleCall EXCEPT !.pc = "import", !.req = req, !.method = fm.value.str,
                              !.filePath = r.filePath]

\* ... when the import settles
simulatePathRequestResume(call, imp) ==
    LET h == retrieveHandlerResume(imp, call.method)
    IN  IF h.how = "threw"
        THEN [call EXCEPT !.pc = "done", !.outcome = Threw(simulateCatch(h.value))]
        ELSE [call EXCEPT !.pc = "invoke", !.handler = h.value]

\* simulatePathRequestInvoke with the handler call inside the first try block
simulatePathRequestInvoke_oneTry(call) ==
    [call EXCEPT !.pc = "done", !.invoked = TRUE, !.handed = call.req,
                 !.outcome = IF callHandler(call.handler, call.req).how = "threw"
                             THEN Threw(NotFoundError)
                             ELSE callHandler(call.handler, call.req)]

\* ... and the handler call: return await handler(req, res), catch(e) { throw e }
simulatePathRequestInvoke(call) ==
    [call EXCEPT !.pc = "done", !.invoked = TRUE, !.handed = call.req,
                 !.outcome = callHandler(call.handler, call.req)]

\* endpointRouting(args): args.allowedMethods || null, and the parsed
\* routes file (JSON.parse(JSON.stringify(o)) of an object tree with string
\* leaves and no index-like keys gives the same tree in the same key order)
endpointRouting(argAllowedMethods, fileContent) ==
    [made |-> TRUE, routeRegistry |-> fileContent,
     allowedMethods |-> orElse(argAllowedMethods, Null)]

(***************************************************************************)
(* The compile as a call: what it does when the file system refuses, and   *)
(* the compiler of the package's root index.js                             *)
(***************************************************************************)
s_routesjson == <<"r","o","u","t","e","s",".","j","s","o","n">>
s_ENOENT     == <<"E","N","O","E","N","T">>
s_EACCES     == <<"E","A","C","C","E","S">>

\* the file system as a compile finds it: the handlers directory is there and
\* readable, there but unreadable, or missing; the output file is there and
\* writable, there but read-only, or missing (in a writable directory)
HealthyDisk == [root |-> "readable", output |-> "writable"]

\* resolveAndValidatePath(inputPath, { mustExist: true, ... }) for the paths
\* this program gives it: a relative 'x.json' file path (mustBeJson) and a
\* relative path that, when it exists, is a directory (mustBeDir)
resolveAndValidatePath(inputPath, exists) ==
    IF ~exists THEN Threw(Err(s_Error)) ELSE Returned(Str(inputPath))

\* buildEndpointRoutes(args) of lib: how the call ends for its caller, and
\* what it wrote to configOutput (Undefined: nothing was written).  The
\* try/catch around loadRoutes and writeFileSync logs the error and lets the
\* call return.
buildEndpointRoutesCall(fsys, files, order, argBlacklist) ==
    LET configOutput == resolveAndValidatePath(s_routesjson, fsys.output # "missing")
        handlersDir  == resolveAndValidatePath(s_endpoints, fsys.root # "missing")
    IN  IF configOutput.how = "threw"
        THEN [outcome |-> configOutput, written |-> Undefined]
        ELSE IF handlersDir.how = "threw"
        THEN [outcome |-> handlersDir, written |-> Undefined]
        ELSE IF fsys.root = "unreadable"      \* fs.readdirSync throws, caught
        THEN [outcome |-> Returned(Undefined), written |-> Undefined]
        ELSE IF fsys.output = "readonly"      \* fs.writeFileSync throws, caught
        THEN [outcome |-> Returned(Undefined), written |-> Undefined]
        ELSE [outcome |-> Returned(Undefined),
              written |-> buildEndpointRoutes(files, order, argBlacklist)]

\* fs.readdirSync(dir) finds a directory: the handlers root or one below it
existsDir(files, root, dir) ==
    /\ IsPrefix(root, dir)
    /\ \/ dir = root
       \/ /\ dir[Len(root) + 1] = "/"
          /\ isDirectory(files, root, dir)

\* root index.js: the loop over Object.entries(routeModule.default), which
\* stores fullPath as it is
RECURSIVE indexInsertEntries(_, _, _, _, _)
indexInsertEntries(nestedRoutes, routePath, entries, i, fullPath) ==
    IF i > Len(entries) THEN nestedRoutes
    ELSE indexInsertEntries(
            insertRoute(nestedRoutes, routePath, entries[i].k, fullPath),
            routePath, entries, i + 1, fullPath)

\* root index.js: the index.js branch of loadRoutes
indexLoadIndex(nestedRoutes, files, root, fullPath, basePath) ==
    LET imp == importFile(files, root, fullPath)
        def == IF imp.rejects THEN Undefined ELSE getProp(imp.module, k_default)
    IN  IF imp.rejects THEN nestedRoutes
        ELSE IF ~truthy(def) \/ ~typeofObject(def) THEN nestedRoutes
        ELSE indexInsertEntries(nestedRoutes, basePath, def.props, 1, fullPath)

\* root index.js: loadRoutes(nestedRoutes, dir, pathBlacklist, basePath, debug).
\* pathBlacklist.indexOf(file) is a TypeError on null; the recursive call is
\* loadRoutes(fullPath, currentPath, pathBlacklist, basePath), so the callee
\* lists the directory named by the route path and fills the string fullPath.
\* The result: thrown or not, the error, and the caller's routes object.
RECURSIVE indexLoadRoutes(_, _, _, _, _, _, _)
RECURSIVE indexLoadFiles(_, _, _, _, _, _, _, _, _)
indexLoadFiles(nestedRoutes, files, order, root, dir, pathBlacklist, basePath, list, i) ==
    IF i > Len(list)
    THEN [threw |-> FALSE, error |-> Undefined, routes |-> nestedRoutes]
    ELSE
      LET file        == list[i]
          fullPath    == pathJoin(dir, file)
          currentPath == basePath \o <<"/">> \o file
          sub         == indexLoadRoutes(Str(fullPath), files, order, root,
                                         currentPath, pathBlacklist, basePath)
      IN  IF isDirectory(files, root, fullPath)
          THEN IF pathBlacklist.kind # "array"
               THEN [threw |-> TRUE, error |-> Err(s_TypeError), routes |-> nestedRoutes]
               ELSE IF blacklisted(pathBlacklist, file)
               THEN indexLoadFiles(nestedRoutes, files, order, root, dir,
                                   pathBlacklist, basePath, list, i + 1)
               ELSE IF sub.threw
               THEN [threw |-> TRUE, error |-> sub.error, routes |-> nestedRoutes]
               ELSE indexLoadFiles(nestedRoutes, files, order, root, dir,
                                   pathBlacklist, basePath, list, i + 1)
          ELSE IF file = s_indexjs
          THEN indexLoadFiles(indexLoadIndex(nestedRoutes, files, root, fullPath, basePath),
                              files, order, root, dir, pathBlacklist, basePath, list, i + 1)
          ELSE indexLoadFiles(nestedRoutes, files, order, root, dir,
                              pathBlacklist, basePath, list, i + 1)

indexLoadRoutes(nestedRoutes, files, order, root, dir, pathBlacklist, basePath) ==
    IF ~existsDir(files, root, dir)
    THEN [threw |-> TRUE, error |-> Err(s_ENOENT), routes |-> nestedRoutes]
    ELSE indexLoadFiles(nestedRoutes, files, order, root, dir, pathBlacklist,
                        basePath, readdirSync(files, order, root, dir), 1)

\* root index.js: buildEndpointRoutes(args); nothing catches what loadRoutes
\* or fs.writeFileSync throw
indexBuildEndpointRoutes(fsys, files, order, argBlacklist) ==
    LET pathBlacklist   == orElse(argBlacklist, Null)
        handlersDirPath == pathJoin(s_cwd, s_endpoints)
        r == indexLoadRoutes(EmptyObject, files, order, handlersDirPath,
                             handlersDirPath, pathBlacklist, <<>>)
    IN  IF fsys.root = "missing"
        THEN [outcome |-> Threw(Err(s_ENOENT)), written |-> Undefined]
        ELSE IF fsys.root = "unreadable"
        THEN [outcome |-> Threw(Err(s_EACCES)), written |-> Undefined]
        ELSE IF r.threw
        THEN [outcome |-> Threw(r.error), written |-> Undefined]
        ELSE IF fsys.output = "readonly"
        THEN [outcome |-> Threw(Err(s_EACCES)), written |-> Undefined]
        ELSE [outcome |-> Returned(Undefined), written |-> r.routes]

(***************************************************************************)
(* Several calls in flight on one router: the module map of `import`       *)
(***************************************************************************)
\* nothing imported yet
EmptyCache == {}

\* cachedImport answering with whatever module was loaded before
cachedImport_anyKey(cache, filePath) == cache

\* the entries the module map holds for a file path
cachedImport(cache, filePath) ==
    {e \in cache : e.filePath = pathResolve(filePath)}

\* await import(filePath): the module loaded before under this path, else
\* the file as it is now; a module that loaded is kept in the map
importModule(cache, files, filePath) ==
    LET hit == cachedImport(cache, filePath)
        imp == IF hit # {} THEN (CHOOSE e \in hit : TRUE).imp
               ELSE retrieveModuleFromFile(files, filePath)
    IN  [imp   |-> imp,
         cache |-> IF imp.rejects THEN cache
                   ELSE cache \cup {[filePath |-> pathResolve(filePath),
                                     imp |-> imp]}]

(***************************************************************************)
(* Bounds and input sets                                                   *)
(***************************************************************************)
MaxRouteFiles == 2
MaxSegments   == 2
MaxInserts    == 3
MaxCallers    == 2

RECURSIVE SubsetsUpTo(_, _)
SubsetsUpTo(S, n) ==
    IF n = 0 THEN {{}}
    ELSE LET prev == SubsetsUpTo(S, n - 1)
         IN  prev \cup {T \cup {e} : T \in prev, e \in S}

RECURSIVE SeqsUpTo(_, _)
SeqsUpTo(S, n) ==
    IF n = 0 THEN {<<>>}
    ELSE LET prev == SeqsUpTo(S, n - 1)
         IN  prev \cup {Append(q, e) : q \in prev, e \in S}

OneFilePerDir(T) == \A f, g \in T : f.dir = g.dir => f = g

TopDirs == {<<n_a>>, <<n_p>>, <<n_q>>, <<n_cp>>, <<n_dev>>}
SubDirs == {<<n_a, n_a>>, <<n_a, n_p>>, <<n_a, n_dev>>, <<n_p, n_a>>, <<n_dev, n_a>>}

\* the route files the compiler and matcher are exercised on
MatchFiles ==
    {[dir |-> d, kind |-> "getOk"] : d \in {<<>>} \cup TopDirs \cup SubDirs}
    \cup {[dir |-> d, kind |-> "mixed"] : d \in {<<n_a>>, <<n_p>>}}
    \cup {[dir |-> <<n_a>>, kind |-> k] : k \in {"loadFails", "fnDefault"}}

MatchTrees == {T \in SubsetsUpTo(MatchFiles, MaxRouteFiles) : OneFilePerDir(T)}

Listings   == {"asc", "desc"}
Blacklists == {Undefined, Null, Arr(<<n_dev>>)}

\* request paths: "/" followed by the segments joined by "/"
PathsOver(segs) == {<<"/">> \o join(q) : q \in SeqsUpTo(segs, MaxSegments)}

\* (the empty name gives the paths with "//" and with a trailing "/")
MatchPaths == PathsOver({n_a, n_x, n_cp, <<>>})

\* request objects: none given, one without params, and Express-like ones
ReqObjects ==
    {Undefined,
     EmptyObject,
     Obj(<<[k |-> k_params, v |-> EmptyObject]>>),
     Obj(<<[k |-> k_params, v |-> Obj(<<[k |-> <<"p">>, v |-> Str(<<"o","l","d">>)]>>)]>>)}

\* the route files the dispatcher is exercised on
DispatchFiles ==
    {[dir |-> <<n_a>>, kind |-> k] : k \in {"getOk", "mixed", "notFn"}}
    \cup {[dir |-> <<n_p>>, kind |-> "getOk"],
          [dir |-> <<n_a, n_p>>, kind |-> "mixed"]}

DispatchTrees == {T \in SubsetsUpTo(DispatchFiles, MaxRouteFiles) : OneFilePerDir(T)}

\* what a route file can turn into after the routes were compiled
EditKinds == {"loadFails", "noDefault"}

DispatchPaths == PathsOver({n_a, n_x})

\* the method argument of a request: a string in some letter case, or none
MethodArgs == {Str(m_GET), Str(m_get), Str(m_POST), Undefined}

\* args.allowedMethods of endpointRouting
AllowedArgs == {Undefined, Arr(<<m_GET>>), Arr(<<m_GET, m_POST>>)}

Ops == {"exists", "simulate"}

\* the route files the two builds are exercised on: those of the matcher,
\* and more files that do not yield a method table
BuildFiles ==
    MatchFiles \cup {[dir |-> <<n_a>>, kind |-> "noDefault"],
                     [dir |-> <<>>, kind |-> "loadFails"],
                     [dir |-> <<n_a, n_a>>, kind |-> "loadFails"]}

BuildTrees == {T \in SubsetsUpTo(BuildFiles, MaxRouteFiles) : OneFilePerDir(T)}

Disks == [root : {"readable", "unreadable", "missing"},
          output : {"writable", "readonly", "missing"}]

\* the arguments insertRoute is exercised on: the route path loadRoutes
\* builds for a directory ('' for the handlers root, '/' + names otherwise),
\* a method key and a file path
InsertDirs == {<<>>, <<n_a>>, <<n_p>>, <<n_cp>>, <<n_a, n_a>>, <<n_a, n_p>>}
routePathOf(dir) == IF dir = <<>> THEN <<>> ELSE <<"/">> \o join(dir)
InsertMethods == {m_GET, m_POST}
InsertFiles   == {<<"f">>, <<"g">>}

\* the callers of one router, and what they call it with: route files whose
\* handlers return and throw, under a literal and a bracketed directory
Callers == 1..MaxCallers

ConcurrentFiles == {[dir |-> <<n_a>>, kind |-> "mixed"],
                    [dir |-> <<n_p>>, kind |-> "getOk"]}

ConcurrentTrees == {T \in SubsetsUpTo(ConcurrentFiles, MaxRouteFiles) : OneFilePerDir(T)}

ConcurrentPaths == {<<"/">> \o n_a, <<"/">> \o n_x}

ConcurrentMethods == {Str(m_GET), Str(m_POST)}

ConcurrentReqs == {EmptyObject,
                   Obj(<<[k |-> k_params, v |-> EmptyObject]>>)}


(***************************************************************************)
(* State                                                                   *)
(***************************************************************************)
VARIABLES
    tree,        \* the route files of the handlers directory
    listing,     \* the order fs.readdirSync lists a directory in
    blacklist,   \* args.pathBlacklist given to buildEndpointRoutes
    routesFile,  \* what routes.json holds: Undefined until compiled
    edited,      \* a route file changed after the routes were compiled
    router,      \* the EndpointRouting instance: its private fields
    request,     \* the path and method the calls of this run are made with
    calls,       \* per operation, the call in flight: its locals and result
    probe,       \* the last direct matchRoute call: its arguments and result
    disk,        \* the file system as buildEndpointRoutes finds it
    build,       \* the buildEndpointRoutes call: which build ran, how it ended
    inserts,     \* a routes object under construction and the insertRoute calls made
    callers,     \* per concurrent caller, the router call it has in flight
    moduleCache  \* the modules `import` has loaded so far, by file path

vars == <<tree, listing, blacklist, routesFile, edited, router, request, calls, probe,
          disk, build, inserts, callers, moduleCache>>

NoRouter == [made |-> FALSE, routeRegistry |-> Undefined, allowedMethods |-> Null]

NoProbe == [done |-> FALSE, path |-> <<>>, req |-> Undefined,
            result |-> [node |-> Null, params |-> EmptyObject, keys |-> <<>>,
                        req |-> EmptyObject]]

NoRequest == [path |-> <<>>, method |-> Undefined]

NoBuild == [version |-> "none", outcome |-> Pending]

NoInserts == [routes |-> EmptyObject, log |-> <<>>]

\* a caller that has not called the router: no operation, no arguments; for
\* a call, whether another call was suspended when it was issued and the
\* private fields of the router it was issued on
IdleCaller == [op |-> "none", path |-> <<>>, method |-> Undefined, req |-> Undefined,
               overlapped |-> FALSE, issuedOn |-> NoRouter, call |-> IdleCall]

NoCallers == [i \in Callers |-> IdleCaller]

\* some call other than caller i's is suspended
othersSuspended(i) ==
    \E j \in Callers \ {i} : callers[j].call.pc \in {"import", "invoke"}

\* await buildEndpointRoutes(args)
BuildEndpointRoutes ==
    /\ routesFile = Undefined
    /\ build.version = "none"
    /\ LET r == buildEndpointRoutesCall(disk, tree, listing, blacklist)
       IN  /\ routesFile' = r.written
           /\ build' = [version |-> "lib", outcome |-> r.outcome]
    /\ UNCHANGED <<tree, listing, blacklist, edited, router, request, calls, probe,
                 disk, inserts, callers, moduleCache>>

\* await buildEndpointRoutes(args) of the root index.js
BuildEndpointRoutesIndexJs ==
    /\ routesFile = Undefined
    /\ build.version = "none"
    /\ LET r == indexBuildEndpointRoutes(disk, tree, listing, blacklist)
       IN  /\ routesFile' = r.written
           /\ build' = [version |-> "index", outcome |-> r.outcome]
    /\ UNCHANGED <<tree, listing, blacklist, edited, router, request, calls, probe,
                 disk, inserts, callers, moduleCache>>

\* the environment: an endpoint file is changed or removed after the compile
\* and before the server starts ("updates to the endpoints don't require a
\* re-compile of the routes")
EditRouteFile ==
    /\ routesFile # Undefined
    /\ ~router.made
    /\ ~edited
    /\ \E f \in tree, k \in EditKinds :
          tree' = (tree \ {f}) \cup {[dir |-> f.dir, kind |-> k]}
    /\ edited' = TRUE
    /\ UNCHANGED <<listing, blacklist, routesFile, router, request, calls, probe,
                 disk, build, inserts, callers, moduleCache>>

\* const routing = endpointRouting(args)
EndpointRouting ==
    /\ routesFile # Undefined
    /\ ~router.made
    /\ \E am \in AllowedArgs : router' = endpointRouting(am, routesFile)
    /\ UNCHANGED <<tree, listing, blacklist, routesFile, edited, request, calls, probe,
                 disk, build, inserts, callers, moduleCache>>

\* routing.doesEndpointExist(path, method) is called
DoesEndpointExist ==
    /\ router.made
    /\ calls["exists"].pc = "idle"
    /\ calls' = [calls EXCEPT !["exists"] =
                    doesEndpointExist(router.allowedMethods, router.routeRegistry,
                                      request.path, request.method)]
    /\ UNCHANGED <<tree, listing, blacklist, routesFile, edited, router, request, probe,
                 disk, build, inserts, callers, moduleCache>>

\* its import settles
DoesEndpointExistResume ==
    /\ calls["exists"].pc = "import"
    /\ calls' = [calls EXCEPT !["exists"] =
                    doesEndpointExistResume(calls["exists"],
                        retrieveModuleFromFile(tree, calls["exists"].filePath))]
    /\ UNCHANGED <<tree, listing, blacklist, routesFile, edited, router, request, probe,
                 disk, build, inserts, callers, moduleCache>>

\* routing.simulatePathRequest(path, method, req, res) is called
SimulatePathRequest ==
    /\ router.made
    /\ calls["simulate"].pc = "idle"
    /\ \E req \in ReqObjects \ {Undefined} :
          calls' = [calls EXCEPT !["simulate"] =
                       simulatePathRequest(router.allowedMethods, router.routeRegistry,
                                           request.path, request.method, req)]
    /\ UNCHANGED <<tree, listing, blacklist, routesFile, edited, router, request, probe,
                 disk, build, inserts, callers, moduleCache>>

\* its import settles
SimulatePathRequestResume ==
    /\ calls["simulate"].pc = "import"
    /\ calls' = [calls EXCEPT !["simulate"] =
                    simulatePathRequestResume(calls["simulate"],
                        retrieveModuleFromFile(tree, calls["simulate"].filePath))]
    /\ UNCHANGED <<tree, listing, blacklist, routesFile, edited, router, request, probe,
                 disk, build, inserts, callers, moduleCache>>

\* the resolved handler is called and settles
InvokeHandler ==
    /\ calls["simulate"].pc = "invoke"
    /\ calls' = [calls EXCEPT !["simulate"] =
                    simulatePathRequestInvoke(calls["simulate"])]
    /\ UNCHANGED <<tree, listing, blacklist, routesFile, edited, router, request, probe,
                 disk, build, inserts, callers, moduleCache>>

\* matchRoute applied to the compiled routes
MatchRoute ==
    /\ routesFile # Undefined
    /\ ~probe.done
    /\ \E path \in MatchPaths, req \in ReqObjects :
          probe' = [done |-> TRUE, path |-> path, req |-> req,
                    result |-> matchRoute(routesFile, path, req)]
    /\ UNCHANGED <<tree, listing, blacklist, routesFile, edited, router, request, calls,
                 disk, build, inserts, callers, moduleCache>>

(***************************************************************************)
(* Spec: compile, start the router, dispatch one request both ways         *)
(***************************************************************************)
Init ==
    /\ tree \in DispatchTrees
    /\ listing = "asc"
    /\ blacklist = Undefined
    /\ routesFile = Undefined
    /\ edited = FALSE
    /\ router = NoRouter
    /\ request \in [path : DispatchPaths, method : MethodArgs]
    /\ calls = [op \in Ops |-> IdleCall]
    /\ probe = NoProbe
    /\ disk = HealthyDisk
    /\ build = NoBuild
    /\ inserts = NoInserts
    /\ callers = NoCallers
    /\ moduleCache = EmptyCache

Next ==
    \/ BuildEndpointRoutes
    \/ EditRouteFile
    \/ EndpointRouting
    \/ DoesEndpointExist
    \/ DoesEndpointExistResume
    \/ SimulatePathRequest
    \/ SimulatePathRequestResume
    \/ InvokeHandler

Spec == Init /\ [][Next]_vars

(***************************************************************************)
(* SpecMatch: compile a handler directory and match a path against it      *)
(***************************************************************************)
InitMatch ==
    /\ tree \in MatchTrees
    /\ listing \in Listings
    /\ blacklist \in Blacklists
    /\ routesFile = Undefined
    /\ edited = FALSE
    /\ router = NoRouter
    /\ request = NoRequest
    /\ calls = [op \in Ops |-> IdleCall]
    /\ probe = NoProbe
    /\ disk = HealthyDisk
    /\ build = NoBuild
    /\ inserts = NoInserts
    /\ callers = NoCallers
    /\ moduleCache = EmptyCache

NextMatch == BuildEndpointRoutes \/ MatchRoute

SpecMatch == InitMatch /\ [][NextMatch]_vars

(***************************************************************************)
(* SpecBuild: one compile, by either build, on a file system that may      *)
(* refuse                                                                  *)
(***************************************************************************)
InitBuild ==
    /\ tree \in BuildTrees
    /\ listing \in Listings
    /\ blacklist \in Blacklists
    /\ disk \in Disks
    /\ routesFile = Undefined
    /\ edited = FALSE
    /\ router = NoRouter
    /\ request = NoRequest
    /\ calls = [op \in Ops |-> IdleCall]
    /\ probe = NoProbe
    /\ build = NoBuild
    /\ inserts = NoInserts
    /\ callers = NoCallers
    /\ moduleCache = EmptyCache

NextBuild == BuildEndpointRoutes \/ BuildEndpointRoutesIndexJs

SpecBuild == InitBuild /\ [][NextBuild]_vars

(***************************************************************************)
(* SpecInsert: a sequence of insertRoute calls on one routes object        *)
(***************************************************************************)
\* insertRoute(nestedRoutes, fullPath, method, filePath) is called
InsertRoute ==
    /\ Len(inserts.log) < MaxInserts
    /\ \E d \in InsertDirs, m \in InsertMethods, fp \in InsertFiles :
          LET after == insertRoute(inserts.routes, routePathOf(d), m, fp)
          IN  inserts' = [routes |-> after,
                          log |-> Append(inserts.log,
                                     [path |-> routePathOf(d), method |-> m,
                                      filePath |-> fp, after |-> after])]
    /\ UNCHANGED <<tree, listing, blacklist, routesFile, edited, router, request,
                 calls, probe, disk, build, callers, moduleCache>>

InitInsert ==
    /\ tree = {}
    /\ listing = "asc"
    /\ blacklist = Undefined
    /\ routesFile = Undefined
    /\ edited = FALSE
    /\ router = NoRouter
    /\ request = NoRequest
    /\ calls = [op \in Ops |-> IdleCall]
    /\ probe = NoProbe
    /\ disk = HealthyDisk
    /\ build = NoBuild
    /\ inserts = NoInserts
    /\ callers = NoCallers
    /\ moduleCache = EmptyCache

NextInsert == InsertRoute

SpecInsert == InitInsert /\ [][NextInsert]_vars

(***************************************************************************)
(* SpecConcurrent: compile, start the router, and let several callers      *)
(* dispatch at once, each call suspending where it awaits its import       *)
(***************************************************************************)
\* a caller calls routing.doesEndpointExist(path, method)
CallerDoesEndpointExist ==
    /\ router.made
    /\ \E i \in Callers, path \in ConcurrentPaths, method \in ConcurrentMethods :
          /\ callers[i].op = "none"
          /\ callers' = [callers EXCEPT ![i] =
                [op |-> "exists", path |-> path, method |-> method,
                 req |-> Undefined, overlapped |-> othersSuspended(i), issuedOn |-> router,
                 call |-> doesEndpointExist(router.allowedMethods,
                                            router.routeRegistry, path, method)]]
    /\ UNCHANGED <<tree, listing, blacklist, routesFile, edited, router, request, calls,
                 probe, disk, build, inserts, moduleCache>>

\* the import of a suspended doesEndpointExist settles
CallerDoesEndpointExistResume ==
    /\ \E i \in Callers :
          /\ callers[i].op = "exists"
          /\ callers[i].call.pc = "import"
          /\ LET r == importModule(moduleCache, tree, callers[i].call.filePath)
             IN  /\ callers' = [callers EXCEPT ![i].call =
                                   doesEndpointExistResume(@, r.imp)]
                 /\ moduleCache' = r.cache
    /\ UNCHANGED <<tree, listing, blacklist, routesFile, edited, router, request, calls,
                 probe, disk, build, inserts>>

\* a caller calls routing.simulatePathRequest(path, method, req, res)
CallerSimulatePathRequest ==
    /\ router.made
    /\ \E i \in Callers, path \in ConcurrentPaths, method \in ConcurrentMethods,
          req \in ConcurrentReqs :
          /\ callers[i].op = "none"
          /\ callers' = [callers EXCEPT ![i] =
                [op |-> "simulate", path |-> path, method |-> method,
                 req |-> req, overlapped |-> othersSuspended(i), issuedOn |-> router,
                 call |-> simulatePathRequest(router.allowedMethods,
                                              router.routeRegistry, path, method, req)]]
    /\ UNCHANGED <<tree, listing, blacklist, routesFile, edited, router, request, calls,
                 probe, disk, build, inserts, moduleCache>>

\* the import of a suspended simulatePathRequest settles
CallerSimulatePathRequestResume ==
    /\ \E i \in Callers :
          /\ callers[i].op = "simulate"
          /\ callers[i].call.pc = "import"
          /\ LET r == importModule(moduleCache, tree, callers[i].call.filePath)
             IN  /\ callers' = [callers EXCEPT ![i].call =
                                   simulatePathRequestResume(@, r.imp)]
                 /\ moduleCache' = r.cache
    /\ UNCHANGED <<tree, listing, blacklist, routesFile, edited, router, request, calls,
                 probe, disk, build, inserts>>

\* the handler a simulatePathRequest resolved is called and settles
CallerInvokeHandler ==
    /\ \E i \in Callers :
          /\ callers[i].op = "simulate"
          /\ callers[i].call.pc = "invoke"
          /\ callers' = [callers EXCEPT ![i].call = simulatePathRequestInvoke(@)]
    /\ UNCHANGED <<tree, listing, blacklist, routesFile, edited, router, request, calls,
                 probe, disk, build, inserts, moduleCache>>

InitConcurrent ==
    /\ tree \in ConcurrentTrees
    /\ listing = "asc"
    /\ blacklist = Undefined
    /\ routesFile = Undefined
    /\ edited = FALSE
    /\ router = NoRouter
    /\ request = NoRequest
    /\ calls = [op \in Ops |-> IdleCall]
    /\ probe = NoProbe
    /\ disk = HealthyDisk
    /\ build = NoBuild
    /\ inserts = NoInserts
    /\ callers = NoCallers
    /\ moduleCache = EmptyCache

NextConcurrent ==
    \/ BuildEndpointRoutes
    \/ EditRouteFile
    \/ EndpointRouting
    \/ CallerDoesEndpointExist
    \/ CallerDoesEndpointExistResume
    \/ CallerSimulatePathRequest
    \/ CallerSimulatePathRequestResume
    \/ CallerInvokeHandler

SpecConcurrent == InitConcurrent /\ [][NextConcurrent]_vars

(***************************************************************************)
(* Properties                                                              *)
(***************************************************************************)
ex  == calls["exists"]
sim == calls["simulate"]

\* the request of this run, as the dispatcher reads it
reqMethodIsString == request.method.kind = "string"
reqMethod   == toUpperCase(request.method.str)
reqMatch    == matchRoute(router.routeRegistry, request.path, Undefined)
reqEntry    == getProp(reqMatch.node, reqMethod)
reqHasEntry == reqMatch.node # Null /\ truthy(reqEntry)
                 /\ truthy(getProp(reqEntry, k_filePath))
reqImport   == retrieveModuleFromFile(tree, getProp(reqEntry, k_filePath).str)
reqCallable ==
    /\ reqHasEntry
    /\ ~reqImport.rejects
    /\ getProp(getProp(reqImport.module, k_default), reqMethod).kind = "function"

codeOf(v)   == getProp(v, k_code)
statusOf(v) == getProp(v, k_status)

\* C1: with no whitelist configured the method check passes for every
\* method: doesEndpointExist and simulatePathRequest on a registered path
\* with a registered method succeed (true is returned, the handler runs).
C1_NoWhitelistAllowsAll ==
    (router.made /\ router.allowedMethods = Null /\ reqMethodIsString /\ reqCallable)
    => /\ ex.pc = "done"  => ex.outcome = Returned(Bool(TRUE))
       /\ sim.pc = "done" => sim.invoked

\* C2: with a whitelist configured, simulatePathRequest with a method that,
\* uppercased, is not in the whitelist fails with code NOT_ALLOWED and status
\* 405, whatever the path and whatever is registered.
C2_NotWhitelistedIs405 ==
    (/\ router.made /\ truthy(router.allowedMethods) /\ reqMethodIsString
     /\ ~includesMethod(router.allowedMethods, reqMethod)
     /\ sim.pc = "done")
    => /\ sim.outcome.how = "threw"
       /\ codeOf(sim.outcome.value) = Str(s_NOT_ALLOWED)
       /\ statusOf(sim.outcome.value) = Num(s_405)

\* C3: when simulatePathRequest resolves a route through dynamic segments,
\* the req object handed to the handler carries every extracted value under
\* req.params (stated here for request objects that hold a params object, as
\* those of Express do).
C3_HandlerReqCarriesParams ==
    (sim.invoked /\ reqMethodIsString /\ truthy(getProp(sim.req, k_params)))
    => \A i \in 1..Len(reqMatch.params.props) :
          getProp(getProp(sim.handed, k_params), reqMatch.params.props[i].k)
            = reqMatch.params.props[i].v

\* the node reached from `node` through the keys `keys`
RECURSIVE NodeAt(_, _)
NodeAt(node, keys) ==
    IF keys = <<>> THEN node ELSE NodeAt(getProp(node, Head(keys)), Tail(keys))

probeSegments == filterBoolean(split(probe.path))

\* the bindings of a descent through `keys` on `segs`: one per step whose key
\* is not the segment's own key
RECURSIVE BindingsOf(_, _, _)
BindingsOf(keys, segs, i) ==
    IF i = 0 THEN EmptyObject
    ELSE LET before == BindingsOf(keys, segs, i - 1)
         IN  IF keys[i] = <<"/">> \o segs[i] THEN before
             ELSE setProp(before, slice(keys[i], 2), Str(segs[i]))

\* C4: exact match takes precedence over dynamic: at a node that has the
\* literal child key "/s" and a dynamic child key, matchRoute on segment s
\* descends into the literal child and binds no parameter for that segment,
\* whatever the order the keys were inserted in.
C4_ExactOverDynamic ==
    probe.done =>
      LET segs == probeSegments
          keys == probe.result.keys
      IN  /\ \A i \in 1..Len(segs) :
                (/\ i <= Len(keys) + 1
                 /\ hasOwnProperty(NodeAt(routesFile, SubSeq(keys, 1, i - 1)),
                                   <<"/">> \o segs[i])
                 /\ firstDynamic(NodeAt(routesFile, SubSeq(keys, 1, i - 1))) # 0)
                => /\ i <= Len(keys)
                   /\ keys[i] = <<"/">> \o segs[i]
                   /\ NodeAt(routesFile, SubSeq(keys, 1, i))
                        = getProp(NodeAt(routesFile, SubSeq(keys, 1, i - 1)),
                                  <<"/">> \o segs[i])
          /\ probe.result.params = BindingsOf(keys, segs, Len(keys))
          /\ Len(keys) = Len(segs) => probe.result.node = NodeAt(routesFile, keys)

\* a matched segment whose node holds a dynamic key inserted before the
\* literal key the segment took
C4_Witness ==
    /\ probe.done
    /\ \E i \in 1..Len(probe.result.keys) :
          LET parent == NodeAt(routesFile, SubSeq(probe.result.keys, 1, i - 1))
              lit    == <<"/">> \o probeSegments[i]
          IN  /\ probe.result.keys[i] = lit
              /\ firstDynamic(parent) # 0
              /\ parent.props[firstDynamic(parent)].k # lit
              /\ \E j \in 1..Len(parent.props) :
                    parent.props[j].k = lit /\ firstDynamic(parent) < j

\* directory names and the keys the registry format gives them: "/name" for
\* a literal name, "/:p" for a name "[p]" wrapped in one pair of brackets
bracketed(name) == Len(name) >= 3 /\ name[1] = "[" /\ name[Len(name)] = "]"
paramOf(name)   == SubSeq(name, 2, Len(name) - 1)
expectedKey(name) ==
    IF bracketed(name) THEN <<"/", ":">> \o paramOf(name) ELSE <<"/">> \o name
expectedKeys(dir) == [i \in 1..Len(dir) |-> expectedKey(dir[i])]

\* no name of dir is in the blacklist the compile was given
notExcluded(dir) ==
    blacklist.kind # "array"
    \/ \A i \in 1..Len(dir), j \in 1..Len(blacklist.props) :
          blacklist.props[j].v # Str(dir[i])

\* the method keys an index.js of this kind default-exports in an object
methodKeys(kind) ==
    LET def == getProp(moduleOf(kind).module, k_default)
    IN  IF moduleOf(kind).rejects \/ def.kind # "object" THEN {}
        ELSE {def.props[i].k : i \in 1..Len(def.props)}

\* the path of a directory's index.js as the compile records it
indexPath(dir) == join(<<s_endpoints>> \o dir \o <<s_indexjs>>)

Front(q) == SubSeq(q, 1, Len(q) - 1)
Last(q)  == q[Len(q)]

\* route file f is an index.js with methods in a bracketed directory under
\* literal directories, and the probed path is those literal names followed
\* by one more segment
paramCase(f) ==
    /\ Len(f.dir) >= 1
    /\ bracketed(Last(f.dir))
    /\ \A i \in 1..(Len(f.dir) - 1) : ~bracketed(f.dir[i])
    /\ methodKeys(f.kind) # {}
    /\ notExcluded(f.dir)
    /\ Len(probeSegments) = Len(f.dir)
    /\ Front(probeSegments) = Front(f.dir)

paramResult(f) ==
    /\ probe.result.node = NodeAt(routesFile, expectedKeys(f.dir))
    /\ \A m \in methodKeys(f.kind) :
          truthy(getProp(getProp(probe.result.node, m), k_filePath))
    /\ getProp(probe.result.params, paramOf(Last(f.dir))) = Str(Last(probeSegments))

\* C5 as claimed: compiling a handler directory with a bracketed directory
\* [p] under literal directories and matching a path whose segment at that
\* position is v returns that directory's method table and binds p to v.
C5_ParamExtraction ==
    probe.done => \A f \in tree : paramCase(f) => paramResult(f)

\* the node of [p]'s parent has no key "/v", and no other key starting with
\* "/:" comes before "/:p" in it
paramUnshadowed(f) ==
    LET parent == NodeAt(routesFile, expectedKeys(Front(f.dir)))
        own    == expectedKey(Last(f.dir))
    IN  /\ ~hasOwnProperty(parent, <<"/">> \o Last(probeSegments))
        /\ \A j \in 1..Len(parent.props) :
              (startsWith(parent.props[j].k, <<"/", ":">>) /\ parent.props[j].k # own)
              => \E i \in 1..(j - 1) : parent.props[i].k = own

\* C5 amended: ... provided the compiled node of [p]'s parent has no key
\* "/v" (exact match wins) and no other dynamic key precedes "/:p" in it.
C5_ParamExtractionUnshadowed ==
    probe.done => \A f \in tree : (paramCase(f) /\ paramUnshadowed(f)) => paramResult(f)

C5_Witness ==
    /\ probe.done
    /\ \E f \in tree :
          /\ paramCase(f) /\ paramUnshadowed(f) /\ paramResult(f)
          /\ Len(f.dir) = 2
          /\ firstDynamic(NodeAt(routesFile, expectedKeys(Front(f.dir)))) > 1

\* C6: every recognized entry file is registered: for every non-excluded
\* directory of the handler tree, the root included, whose index.js
\* default-exports an object with method key M, matching the path made of the
\* directory's literal names ("/" for the root) returns a method table whose
\* entry M holds the file path of that index.js.
C6_EveryEntryFileRegistered ==
    probe.done =>
      \A f \in tree :
        (/\ \A i \in 1..Len(f.dir) : ~bracketed(f.dir[i])
         /\ notExcluded(f.dir)
         /\ probeSegments = f.dir)
        => \A m \in methodKeys(f.kind) :
              getProp(getProp(probe.result.node, m), k_filePath) = Str(indexPath(f.dir))

\* C7: simulatePathRequest fails with code NOT_FOUND and status 404, and
\* calls no handler, when the path matches no node, when the matched node has
\* no entry for the requested method, and when the entry exists but its file
\* does not yield a callable for the method (the module fails to load, has
\* no default export, or the method entry is not a function).
C7_NotFoundCases ==
    (/\ sim.pc = "done" /\ reqMethodIsString
     /\ \/ reqMatch.node = Null
        \/ reqMatch.node # Null /\ ~truthy(reqEntry)
        \/ reqHasEntry /\ ~reqCallable)
    => /\ sim.outcome.how = "threw"
       /\ sim.outcome.value = NotFoundError
       /\ codeOf(sim.outcome.value) = Str(s_NOT_FOUND)
       /\ statusOf(sim.outcome.value) = Num(s_404)
       /\ ~sim.invoked

\* a whitelisted method on a registered entry whose module no longer loads
C7_Witness ==
    /\ sim.pc = "done" /\ reqMethodIsString
    /\ truthy(isSupportedHTTPMethod(router.allowedMethods, reqMethod))
    /\ reqHasEntry /\ reqImport.rejects
    /\ sim.outcome = Threw(NotFoundError)

\* C8: doesEndpointExist never raises: for every path and every method
\* argument, a missing or non-string one included, it completes with a
\* boolean.
C8_ExistsNeverRaises ==
    ex.pc = "done" => ex.outcome.how = "returned" /\ ex.outcome.value.kind = "boolean"

\* C9: doesEndpointExist(path, method) returns true exactly when
\* simulatePathRequest with the same path and method, on the same registry,
\* whitelist and code resolver, reaches the handler invocation; and
\* doesEndpointExist itself never invokes the handler.
C9_ExistsIffSimulateInvokes ==
    /\ ~ex.invoked
    /\ (ex.pc = "done" /\ sim.pc = "done")
       => ((ex.outcome = Returned(Bool(TRUE))) <=> sim.invoked)
    /\ (ex.pc = "done" /\ sim.pc = "invoke") => ex.outcome = Returned(Bool(TRUE))

C9_Witness ==
    /\ ex.pc = "done" /\ sim.pc = "done"
    /\ ex.outcome = Returned(Bool(TRUE)) /\ sim.invoked

\* what the handler bodies of the route files do when called
handlerThrows(h)  == h.kind = "function" /\ h.str = h_throw
handlerReturns(h) == h.kind = "function" /\ h.str = h_ret

\* C10: once a handler is resolved, simulatePathRequest returns exactly the
\* value the handler returns and raises exactly the error the handler throws,
\* never the NOT_FOUND or NOT_ALLOWED structured error in its place.
C10_HandlerResultVerbatim ==
    (sim.pc = "done" /\ sim.invoked)
    => /\ handlerThrows(sim.handler)  => sim.outcome = Threw(Err(s_boom))
       /\ handlerReturns(sim.handler) => sim.outcome = Returned(Num(<<"0">>))
       /\ codeOf(sim.outcome.value) \notin {Str(s_NOT_FOUND), Str(s_NOT_ALLOWED)}

C10_Witness ==
    /\ sim.pc = "done" /\ sim.invoked
    /\ handlerThrows(sim.handler)
    /\ sim.outcome = Threw(Err(s_boom))

\* the matched node declares the request method in some letter case: an entry
\* whose key, uppercased, is the request method, pointing to a file whose
\* default export holds a function under that same key
reqDeclaredAnyCase ==
    /\ reqMatch.node # Null
    /\ \E i \in 1..Len(reqMatch.node.props) :
          LET key   == reqMatch.node.props[i].k
              entry == reqMatch.node.props[i].v
              imp   == retrieveModuleFromFile(tree, getProp(entry, k_filePath).str)
          IN  /\ toUpperCase(key) = reqMethod
              /\ truthy(getProp(entry, k_filePath))
              /\ ~imp.rejects
              /\ getProp(getProp(imp.module, k_default), key).kind = "function"

\* C11: a method declared by the route file in another letter case than the
\* uppercased request method still resolves: when the method passes the
\* whitelist and the matched node declares it in some case, doesEndpointExist
\* returns true and simulatePathRequest reaches the handler.
C11_MethodCaseInsensitive ==
    (/\ router.made /\ reqMethodIsString
     /\ truthy(isSupportedHTTPMethod(router.allowedMethods, reqMethod))
     /\ reqDeclaredAnyCase)
    => /\ ex.pc = "done"  => ex.outcome = Returned(Bool(TRUE))
       /\ sim.pc = "done" => sim.invoked

\* the compile of this run has ended, on a file system that lets it read the
\* handlers directory and write the output file
compiled == build.version # "none" /\ disk = HealthyDisk

\* the file paths a registry holds, at any depth
RECURSIVE FilePaths(_)
FilePaths(node) ==
    UNION {IF node.props[i].k = k_filePath /\ node.props[i].v.kind = "string"
           THEN {node.props[i].v.str}
           ELSE FilePaths(node.props[i].v) : i \in 1..Len(node.props)}

\* a directory name of the file path is in the blacklist of the compile
underExcluded(filePath) ==
    \E i \in 1..Len(split(filePath)) : blacklisted(blacklist, split(filePath)[i])

\* the registry holds an entry for every method key of route file f, at the
\* node of f's directory
registered(f) ==
    \A m \in methodKeys(f.kind) :
        truthy(getProp(getProp(NodeAt(routesFile, expectedKeys(f.dir)), m), k_filePath))

\* C12: exclusion pruning: after a compile with a blacklist, the registry
\* holds no route file below a directory, at any depth, whose name is in the
\* blacklist, and it holds the methods of every route file that has no
\* blacklisted directory name on its path.
C12_ExclusionPruning ==
    (compiled /\ blacklist.kind = "array")
    => /\ \A fp \in FilePaths(routesFile) : ~underExcluded(fp)
       /\ \A f \in tree : notExcluded(f.dir) => registered(f)

\* C12 for the build of lib and the directories below the handlers root
C12_ExclusionPruningLibBelowRoot ==
    (compiled /\ blacklist.kind = "array" /\ build.version = "lib")
    => /\ \A fp \in FilePaths(routesFile) : ~underExcluded(fp)
       /\ \A f \in tree : (notExcluded(f.dir) /\ f.dir # <<>>) => registered(f)

C12_WitnessLibBelowRoot ==
    /\ compiled /\ blacklist.kind = "array" /\ build.version = "lib"
    /\ \E f, g \in tree :
          /\ Len(f.dir) = 2 /\ ~notExcluded(f.dir) /\ methodKeys(f.kind) # {}
          /\ notExcluded(g.dir) /\ g.dir # <<>> /\ methodKeys(g.kind) # {}
          /\ registered(g)

\* C13: with no blacklist given (pathBlacklist absent or null) the compile
\* excludes nothing: on a handlers directory with subdirectories it ends
\* without an error and the registry holds the methods of the route file of
\* every subdirectory, at every depth.
C13_NoBlacklistExcludesNothing ==
    (compiled /\ blacklist.kind # "array" /\ \E f \in tree : f.dir # <<>>)
    => /\ build.outcome.how = "returned"
       /\ \A f \in tree : f.dir # <<>> => registered(f)

\* C13 for the build of lib
C13_NoBlacklistExcludesNothingLib ==
    (compiled /\ blacklist.kind # "array" /\ build.version = "lib")
    => /\ build.outcome.how = "returned"
       /\ \A f \in tree : f.dir # <<>> => registered(f)

C13_WitnessLib ==
    /\ compiled /\ blacklist = Null /\ build.version = "lib"
    /\ \E f \in tree : Len(f.dir) = 2 /\ f.dir[2] = n_dev
                       /\ methodKeys(f.kind) # {} /\ registered(f)

\* route file f does not yield a method table: its import fails, or its
\* default export is missing or is not an object
malformed(f) ==
    \/ moduleOf(f.kind).rejects
    \/ ~truthy(getProp(moduleOf(f.kind).module, k_default))
    \/ getProp(moduleOf(f.kind).module, k_default).kind # "object"

\* C14: a malformed route file is not fatal: when an index.js of the tree
\* fails to load or has no object as its default export, the compile still
\* ends without an error and writes the registry, the registry holds the
\* methods of every other, well-formed route file that is not excluded, and
\* it holds no file path of the malformed one.
C14_MalformedFileNonFatal ==
    (compiled /\ \E f \in tree : malformed(f))
    => /\ build.outcome.how = "returned"
       /\ routesFile.kind = "object"
       /\ \A g \in tree : (~malformed(g) /\ notExcluded(g.dir)) => registered(g)
       /\ \A f \in tree : malformed(f) =>
             \A fp \in FilePaths(routesFile) :
                 /\ fp # indexPath(f.dir)
                 /\ fp # pathJoin(s_cwd, indexPath(f.dir))

\* C14 for the build of lib and the directories below the handlers root
C14_MalformedFileNonFatalLibBelowRoot ==
    (compiled /\ build.version = "lib" /\ \E f \in tree : malformed(f))
    => /\ build.outcome.how = "returned"
       /\ routesFile.kind = "object"
       /\ \A g \in tree : (~malformed(g) /\ notExcluded(g.dir) /\ g.dir # <<>>)
                          => registered(g)
       /\ \A f \in tree : malformed(f) =>
             \A fp \in FilePaths(routesFile) : fp # indexPath(f.dir)

\* a malformed file visited before a well-formed one that is registered
C14_WitnessLibBelowRoot ==
    /\ compiled /\ build.version = "lib" /\ listing = "asc"
    /\ \E f, g \in tree :
          /\ malformed(f) /\ f.dir = <<n_a>>
          /\ g.dir = <<n_dev>> /\ methodKeys(g.kind) # {} /\ registered(g)

\* the compile of this run has ended on a file system whose handlers
\* directory cannot be read or whose output file cannot be written
fatalCondition ==
    /\ build.version # "none"
    /\ \/ disk.root \in {"unreadable", "missing"}
       \/ disk.output = "readonly"

\* C15: fatal compile errors reach the caller: when the handlers root
\* directory cannot be read or the registry file cannot be written,
\* buildEndpointRoutes ends with an error for its caller (it throws, its
\* promise rejects) and does not complete normally.
C15_FatalErrorsReachCaller ==
    fatalCondition => build.outcome.how = "threw"

\* C15 for the build of the root index.js
C15_FatalErrorsReachCallerIndexJs ==
    (fatalCondition /\ build.version = "index") => build.outcome.how = "threw"

C15_WitnessIndexJs ==
    /\ fatalCondition /\ build.version = "index"
    /\ disk = [root |-> "readable", output |-> "readonly"]
    /\ build.outcome = Threw(Err(s_EACCES))

\* a key under which insertRoute stores a child node, not a method
isChildKey(key) == startsWith(key, <<"/">>)

\* node has a chain of n child nodes below it
RECURSIVE HasDepth(_, _)
HasDepth(node, n) ==
    \/ n = 0
    \/ \E i \in 1..Len(node.props) :
          isChildKey(node.props[i].k) /\ HasDepth(node.props[i].v, n - 1)

\* C16: no partial match: matchRoute returns a node only when every
\* non-empty segment of the path was consumed by one descent each, through
\* child keys only (never a method key or a filePath record), so the node
\* lies as deep as the path has non-empty segments; a path longer than the
\* routes registered under its prefix gives no match; and empty segments do
\* not count ("/a//b/" matches as "/a/b").
C16_NoPartialMatch ==
    probe.done =>
      LET segs == probeSegments
          keys == probe.result.keys
      IN  /\ probe.result.node # Null =>
                /\ Len(keys) = Len(segs)
                /\ probe.result.node = NodeAt(routesFile, keys)
                /\ \A i \in 1..Len(keys) :
                      /\ isChildKey(keys[i])
                      /\ hasOwnProperty(NodeAt(routesFile, SubSeq(keys, 1, i - 1)), keys[i])
                      /\ keys[i] = <<"/">> \o segs[i] \/ startsWith(keys[i], <<"/", ":">>)
                /\ probe.result.node.kind = "object"
                /\ ~hasOwnProperty(probe.result.node, k_filePath)
          /\ ~HasDepth(routesFile, Len(segs)) => probe.result.node = Null
          /\ probe.result.node
               = matchRoute(routesFile, <<"/">> \o join(segs), probe.req).node

\* a path that goes one segment beyond a registered route: no match
C16_Witness ==
    /\ probe.done
    /\ Len(probeSegments) = 2
    /\ Len(probe.result.keys) = 1
    /\ \E i \in 1..Len(NodeAt(routesFile, probe.result.keys).props) :
          ~isChildKey(NodeAt(routesFile, probe.result.keys).props[i].k)
    /\ probe.result.node = Null

\* the keys of node that start with "/:"
dynamicKeys(node) ==
    {k \in {node.props[i].k : i \in 1..Len(node.props)} : startsWith(k, <<"/", ":">>)}

\* C17: matchRoute descends through a dynamic key only where the node has
\* exactly one: a segment that has no literal child at a node with no dynamic
\* child, or with two or more, ends the match with no result.
C17_ExactlyOneDynamic ==
    probe.done =>
      \A i \in 1..Len(probeSegments) :
        LET parent == NodeAt(routesFile, SubSeq(probe.result.keys, 1, i - 1))
        IN  (/\ i <= Len(probe.result.keys) + 1
             /\ ~hasOwnProperty(parent, <<"/">> \o probeSegments[i])
             /\ Cardinality(dynamicKeys(parent)) # 1)
            => /\ probe.result.node = Null
               /\ Len(probe.result.keys) = i - 1

\* some descent from node consumes all of segs, taking for each segment its
\* literal child or any dynamic child: what a backtracking matcher would find
RECURSIVE SomeDescent(_, _)
SomeDescent(node, segs) ==
    \/ segs = <<>>
    \/ \E i \in 1..Len(node.props) :
          /\ \/ node.props[i].k = <<"/">> \o Head(segs)
             \/ startsWith(node.props[i].k, <<"/", ":">>)
          /\ SomeDescent(node.props[i].v, Tail(segs))

\* C18: matchRoute is a greedy single-pass descent without backtracking: a
\* segment that has a literal child goes into that child, and when the rest
\* of the path cannot be matched below the literal child the result is no
\* match, also when a dynamic sibling has a descent for the rest.
C18_GreedyNoBacktracking ==
    probe.done =>
      \A i \in 1..Len(probeSegments) :
        LET parent == NodeAt(routesFile, SubSeq(probe.result.keys, 1, i - 1))
            lit    == <<"/">> \o probeSegments[i]
            rest   == SubSeq(probeSegments, i + 1, Len(probeSegments))
        IN  (i <= Len(probe.result.keys) + 1 /\ hasOwnProperty(parent, lit))
            => /\ i <= Len(probe.result.keys)
               /\ probe.result.keys[i] = lit
               /\ ~SomeDescent(getProp(parent, lit), rest) => probe.result.node = Null

\* the rest of the path fails below the literal child and a dynamic sibling
\* has a descent for it
C18_Witness ==
    /\ probe.done
    /\ probe.result.node = Null
    /\ \E i \in 1..Len(probeSegments) :
        LET parent == NodeAt(routesFile, SubSeq(probe.result.keys, 1, i - 1))
            lit    == <<"/">> \o probeSegments[i]
            rest   == SubSeq(probeSegments, i + 1, Len(probeSegments))
        IN  /\ i <= Len(probe.result.keys)
            /\ probe.result.keys[i] = lit
            /\ ~SomeDescent(getProp(parent, lit), rest)
            /\ \E dk \in dynamicKeys(parent) :
                  dk # lit /\ SomeDescent(getProp(parent, dk), rest)

\* C19: a parameter is bound on every descent through a dynamic key: when
\* matchRoute returns a node reached through a key "/:p" at some segment, the
\* bindings hold p with that segment (the last such segment, should p occur
\* twice on the way); and no two different directory names of the compiled
\* tree are stored under the same registry key, so a directory or segment
\* named ":p" is not taken for the dynamic key "/:p".
C19_DynamicDescentBinds ==
    probe.done =>
      /\ probe.result.node # Null =>
           \A i \in 1..Len(probe.result.keys) :
              (/\ startsWith(probe.result.keys[i], <<"/", ":">>)
               /\ \A j \in (i + 1)..Len(probe.result.keys) :
                     probe.result.keys[j] # probe.result.keys[i])
              => getProp(probe.result.params, slice(probe.result.keys[i], 2))
                   = Str(probeSegments[i])
      /\ \A f, g \in tree : \A i \in 1..Len(f.dir), j \in 1..Len(g.dir) :
            formattedSegment(f.dir[i]) = formattedSegment(g.dir[j])
            => f.dir[i] = g.dir[j]

\* the file path a routes object holds for a route path and a method
lookup(routes, path, method) ==
    getProp(getProp(NodeAt(routes, expectedKeys(filterBoolean(split(path)))), method),
            k_filePath)

\* insertion i and insertion j of the log are for the same (path, method)
samePair(i, j) ==
    /\ inserts.log[i].path = inserts.log[j].path
    /\ inserts.log[i].method = inserts.log[j].method

\* the routes object before insertion i
beforeInsert(i) == IF i = 1 THEN EmptyObject ELSE inserts.log[i - 1].after

\* the claim of C20 about the insertions made so far
lastWriteWins ==
    /\ \A i \in 1..Len(inserts.log) :
          (\A j \in (i + 1)..Len(inserts.log) : ~samePair(i, j))
          => lookup(inserts.routes, inserts.log[i].path, inserts.log[i].method)
               = Str(inserts.log[i].filePath)
    /\ \A i \in 1..Len(inserts.log) :
          lookup(beforeInsert(i), inserts.log[i].path, inserts.log[i].method)
              = Str(inserts.log[i].filePath)
          => inserts.log[i].after = beforeInsert(i)
    /\ \A i \in 1..Len(inserts.log), j \in 1..Len(inserts.log) :
          (j < i /\ ~samePair(i, j))
          => lookup(inserts.log[i].after, inserts.log[j].path, inserts.log[j].method)
               = lookup(beforeInsert(i), inserts.log[j].path, inserts.log[j].method)

\* C20: after any sequence of insertRoute calls on one tree, looking up a
\* (path, method) pair gives the file path of the last insertion for that
\* pair, inserting again what the tree already holds for a pair leaves the
\* tree unchanged, and no insertion changes what the tree holds for another
\* pair (a node keeps its method table when a longer path is inserted through
\* it, and its children when a method is inserted on it).
C20_InsertLastWriteWins == lastWriteWins

\* every route path of the log has a segment, and none of its names starts
\* with ":"
properPaths ==
    \A i \in 1..Len(inserts.log) :
        /\ inserts.log[i].path # <<>>
        /\ \A n \in 1..Len(filterBoolean(split(inserts.log[i].path))) :
              ~startsWith(filterBoolean(split(inserts.log[i].path))[n], <<":">>)

\* C20 for route paths of at least one segment with no name starting with ":"
C20_InsertLastWriteWinsProperPaths == properPaths => lastWriteWins

\* a method inserted on a node after a longer path went through it, then the
\* first pair overwritten
C20_WitnessProperPaths ==
    /\ properPaths /\ Len(inserts.log) = 3
    /\ Len(inserts.log[1].path) > Len(inserts.log[2].path)
    /\ startsWith(inserts.log[1].path, inserts.log[2].path)
    /\ samePair(1, 3) /\ inserts.log[1].filePath # inserts.log[3].filePath
    /\ lookup(inserts.routes, inserts.log[2].path, inserts.log[2].method)
         = Str(inserts.log[2].filePath)

(***************************************************************************)
(* C21: concurrent dispatch                                                *)
(***************************************************************************)
\* the call a caller's arguments give when it is the only call the router
\* serves: issued, its import settled from the route file, its handler called
aloneCall(c) ==
    LET c0  == IF c.op = "exists"
               THEN doesEndpointExist(router.allowedMethods, router.routeRegistry,
                                      c.path, c.method)
               ELSE simulatePathRequest(router.allowedMethods, router.routeRegistry,
                                        c.path, c.method, c.req)
        imp == retrieveModuleFromFile(tree, c0.filePath)
        c1  == IF c0.pc # "import" THEN c0
               ELSE IF c.op = "exists" THEN doesEndpointExistResume(c0, imp)
               ELSE simulatePathRequestResume(c0, imp)
    IN  IF c1.pc = "invoke" THEN simulatePathRequestInvoke(c1) ELSE c1

settled(i) == callers[i].op # "none" /\ callers[i].call.pc = "done"

\* every settled call chose the handler, ended with the result or error and
\* handed its handler the request that the same call gives when run alone
outcomesAsAlone ==
    \A i \in Callers :
        settled(i) =>
            LET alone == aloneCall(callers[i])
            IN  /\ callers[i].call.handler = alone.handler
                /\ callers[i].call.outcome = alone.outcome
                /\ callers[i].call.invoked = alone.invoked
                /\ callers[i].call.handed  = alone.handed

\* the router holds the registry it loaded from the routes file, and the
\* registry and whitelist every call so far was issued on
routerAsLoaded ==
    /\ router.made => router.routeRegistry = routesFile
    /\ \A i \in Callers : callers[i].op # "none" => router = callers[i].issuedOn

\* C21: for any interleaving of doesEndpointExist and simulatePathRequest
\* calls that suspend at handler resolution, each call's outcome (handler
\* chosen, error code, parameter bindings) equals the outcome of running
\* that call alone, and the loaded route registry and the whitelist are
\* unchanged in every reachable state.
C21_ConcurrentDispatch == outcomesAsAlone /\ routerAsLoaded

\* the same of the router, step by step: no step taken while the router
\* exists changes its registry or whitelist
C21_RouterUnchangedStep == [][router.made => router' = router]_vars

\* two calls for different route files, the second issued while the first
\* was suspended at its import, both settled: one found its endpoint, the
\* other ran its handler
C21_Witness ==
    \E i, j \in Callers :
        /\ i # j
        /\ settled(i) /\ settled(j)
        /\ callers[j].overlapped
        /\ callers[i].call.filePath # <<>>
        /\ callers[j].call.filePath # <<>>
        /\ callers[i].call.filePath # callers[j].call.filePath
        /\ callers[i].op = "exists"
        /\ callers[i].call.outcome = Returned(Bool(TRUE))
        /\ callers[j].op = "simulate"
        /\ callers[j].call.invoked
        /\ Cardinality(moduleCache) = 2
=============================================================================
